---- MODULE Spec2Model ----
(***************************************************************************)
(* TwitterAPI.io MCP server (src/src/index.ts): the tool dispatcher, the   *)
(* upstream client, the data cleaners, the result shaper and the session   *)
(* cookie, as a state machine.  A tool call runs synchronously up to its   *)
(* single await (the upstream HTTP request) and resumes, atomically, when   *)
(* the upstream answer arrives; several calls may be awaiting at once.     *)
(***************************************************************************)
EXTENDS Integers, Sequences, FiniteSets, TLC

VARIABLES loginCookie, pending, issued, clock, files, last

vars == <<loginCookie, pending, issued, clock, files, last>>

(***************************************************************************)
(* Bounds of the model.                                                    *)
(***************************************************************************)
MaxCalls == 3
MaxInflight == 2
MaxToolCalls == 2
MaxClock == 1

(***************************************************************************)
(* JavaScript values.  Every value is a record tagged by its kind, so that *)
(* values of different kinds can be compared.                              *)
(***************************************************************************)
Undef == [k |-> "undefined"]
Null == [k |-> "null"]
Bool(b) == [k |-> "boolean", b |-> b]
Num(n) == [k |-> "number", n |-> n]
Str(s) == [k |-> "string", s |-> s]
Arr(a) == [k |-> "array", a |-> a]
Obj(o) == [k |-> "object", o |-> o]

Nullish(v) == v.k \in {"undefined", "null"}

\* JavaScript truthiness (ToBoolean)
Truthy(v) ==
  CASE v.k \in {"undefined", "null"} -> FALSE
    [] v.k = "boolean" -> v.b
    [] v.k = "number" -> v.n # 0
    [] v.k = "string" -> v.s # ""
    [] OTHER -> TRUE

\* a || b
Or(a, b) == IF Truthy(a) THEN a ELSE b

\* a ?? b
Coalesce(a, b) == IF Nullish(a) THEN b ELSE a

\* what an expression that throws a TypeError evaluates to
Thrown == [k |-> "TypeError"]

\* o.f: a property of an object, undefined on an object without it and on a
\* primitive, a TypeError on null and undefined
Get(o, f) ==
  IF Nullish(o) THEN Thrown
  ELSE IF o.k = "object" /\ f \in DOMAIN o.o THEN o.o[f] ELSE Undef

\* o?.f
OptGet(o, f) == IF Nullish(o) THEN Undef ELSE Get(o, f)

Min(a, b) == IF a < b THEN a ELSE b
Max(a, b) == IF a > b THEN a ELSE b

\* Array.prototype.slice(0, end) on a sequence, end an integer
Slice0(s, end) ==
  LET e == IF end < 0 THEN Max(Len(s) + end, 0) ELSE Min(end, Len(s))
  IN SubSeq(s, 1, e)

\* the filter that keeps every element
FilterTruthy_KeepAll(s) == s

\* Array.prototype.filter(Boolean)
RECURSIVE FilterTruthy(_)
FilterTruthy(s) ==
  IF s = <<>> THEN <<>>
  ELSE IF Truthy(Head(s)) THEN <<Head(s)>> \o FilterTruthy(Tail(s))
       ELSE FilterTruthy(Tail(s))

(***************************************************************************)
(* DataCleaners                                                            *)
(***************************************************************************)
cleanUser(user) ==
  IF ~Truthy(user) THEN Null
  ELSE Obj([
    id |-> Get(user, "id"),
    username |-> Or(Or(Get(user, "userName"), Get(user, "screen_name")), Get(user, "username")),
    name |-> Get(user, "name"),
    description |-> Get(user, "description"),
    verified |-> Or(Or(Get(user, "isVerified"), Get(user, "verified")), Get(user, "isBlueVerified")),
    followers |-> Coalesce(Get(user, "followers"), Get(user, "followers_count")),
    following |-> Coalesce(Get(user, "following"), Get(user, "following_count")),
    tweets |-> Coalesce(Coalesce(Get(user, "statusesCount"), Get(user, "statuses_count")), Get(user, "tweet_count")),
    location |-> Or(Get(user, "location"), Undef),
    url |-> Or(Get(user, "url"), Undef),
    created |-> Or(Get(user, "createdAt"), Get(user, "created_at"))])

\* cleanTweet reading public_metrics without optional chaining
cleanTweet_NoChaining(tweet) ==
  IF ~Truthy(tweet) THEN Null
  ELSE Obj([
    id |-> Get(tweet, "id"),
    text |-> Get(tweet, "text"),
    author |-> IF Truthy(Get(tweet, "author")) THEN cleanUser(Get(tweet, "author")) ELSE Undef,
    created |-> Or(Get(tweet, "createdAt"), Get(tweet, "created_at")),
    retweets |-> Coalesce(Get(tweet, "retweetCount"), Get(Get(tweet, "public_metrics"), "retweet_count")),
    likes |-> Coalesce(Get(tweet, "likeCount"), Get(Get(tweet, "public_metrics"), "like_count")),
    replies |-> Coalesce(Get(tweet, "replyCount"), Get(Get(tweet, "public_metrics"), "reply_count")),
    quotes |-> Coalesce(Get(tweet, "quoteCount"), Get(Get(tweet, "public_metrics"), "quote_count")),
    views |-> Get(tweet, "viewCount"),
    isReply |-> Get(tweet, "isReply"),
    isRetweet |-> Get(tweet, "isRetweet"),
    inReplyTo |-> Or(Get(tweet, "inReplyToId"), Get(tweet, "in_reply_to")),
    conversationId |-> Get(tweet, "conversationId"),
    lang |-> Get(tweet, "lang")])

cleanTweet(tweet) ==
  IF ~Truthy(tweet) THEN Null
  ELSE Obj([
    id |-> Get(tweet, "id"),
    text |-> Get(tweet, "text"),
    author |-> IF Truthy(Get(tweet, "author")) THEN cleanUser(Get(tweet, "author")) ELSE Undef,
    created |-> Or(Get(tweet, "createdAt"), Get(tweet, "created_at")),
    retweets |-> Coalesce(Get(tweet, "retweetCount"), OptGet(Get(tweet, "public_metrics"), "retweet_count")),
    likes |-> Coalesce(Get(tweet, "likeCount"), OptGet(Get(tweet, "public_metrics"), "like_count")),
    replies |-> Coalesce(Get(tweet, "replyCount"), OptGet(Get(tweet, "public_metrics"), "reply_count")),
    quotes |-> Coalesce(Get(tweet, "quoteCount"), OptGet(Get(tweet, "public_metrics"), "quote_count")),
    views |-> Get(tweet, "viewCount"),
    isReply |-> Get(tweet, "isReply"),
    isRetweet |-> Get(tweet, "isRetweet"),
    inReplyTo |-> Or(Get(tweet, "inReplyToId"), Get(tweet, "in_reply_to")),
    conversationId |-> Get(tweet, "conversationId"),
    lang |-> Get(tweet, "lang")])

\* users.map(cleanUser).filter(Boolean); the result is a sequence
cleanUserList(users) ==
  IF users.k # "array" THEN <<>>
  ELSE FilterTruthy([i \in 1..Len(users.a) |-> cleanUser(users.a[i])])

cleanTweetList(tweets) ==
  IF tweets.k # "array" THEN <<>>
  ELSE FilterTruthy([i \in 1..Len(tweets.a) |-> cleanTweet(tweets.a[i])])

(***************************************************************************)
(* Errors and call outcomes                                                *)
(***************************************************************************)
McpError(code, message) == [cls |-> "McpError", code |-> code, message |-> message]
Error(message) == [cls |-> "Error", message |-> message]
TypeError(message) == [cls |-> "TypeError", message |-> message]

\* error messages are strings; a template string keeps its parts
Msg(text) == Str(text)

\* what a handler's synchronous part or its continuation ends in
Throw(err) == [t |-> "throw", err |-> err]
Return(val) == [t |-> "return", val |-> val]
Await(req, k) == [t |-> "await", req |-> req, k |-> k]

\* CallToolResult with one text item
TextResult(text) == [t |-> "result", type |-> "text", text |-> text]
ProtocolError(err) == [t |-> "error", code |-> err.code, message |-> err.message]

(***************************************************************************)
(* Upstream client                                                         *)
(***************************************************************************)
apiKey == Str("test_api_key")

DefaultStatus == 500

\* the GET request that never carries the cookie
makeRequest_NoCookie(endpoint, params, cookie) ==
  [method |-> "GET", endpoint |-> endpoint, params |-> params, data |-> Undef,
   headers |-> [x_api_key |-> IF Truthy(apiKey) THEN apiKey ELSE Undef, Cookie |-> Undef]]

\* makeRequest up to the await: the GET request handed to the HTTP client
makeRequest(endpoint, params, cookie) ==
  [method |-> "GET", endpoint |-> endpoint, params |-> params, data |-> Undef,
   headers |-> [x_api_key |-> IF Truthy(apiKey) THEN apiKey ELSE Undef,
                Cookie |-> IF Truthy(cookie) THEN cookie ELSE Undef]]

\* the POST request that never carries the cookie
makePostRequest_NoCookie(endpoint, data, cookie) ==
  [method |-> "POST", endpoint |-> endpoint, params |-> Undef, data |-> data,
   headers |-> [x_api_key |-> IF Truthy(apiKey) THEN apiKey ELSE Undef, Cookie |-> Undef]]

\* makePostRequest up to the await: the POST request handed to the HTTP client
makePostRequest(endpoint, data, cookie) ==
  [method |-> "POST", endpoint |-> endpoint, params |-> Undef, data |-> data,
   headers |-> [x_api_key |-> IF Truthy(apiKey) THEN apiKey ELSE Undef,
                Cookie |-> IF Truthy(cookie) THEN cookie ELSE Undef]]

\* the upstream answers: the HTTP client resolves with a body, rejects with
\* an axios error (with or without a response), or rejects with another error
Resolved(data) == [t |-> "resolved", data |-> data]
AxiosError(response, message) == [t |-> "axiosError", response |-> response, message |-> message]
OtherError(message) == [t |-> "otherError", message |-> message]

\* the catch block without the default of the status code
normalizeError_NoDefault(resp) ==
  IF resp.t = "axiosError"
  THEN LET statusCode == OptGet(resp.response, "status")
           errorMessage == Or(OptGet(OptGet(resp.response, "data"), "error"), resp.message)
       IN Error([k |-> "string", s |-> "TwitterAPI.io API error", status |-> statusCode, detail |-> errorMessage])
  ELSE Error(resp.message)

\* the catch block shared by makeRequest and makePostRequest
normalizeError(resp) ==
  IF resp.t = "axiosError"
  THEN LET statusCode == Or(OptGet(resp.response, "status"), Num(DefaultStatus))
           errorMessage == Or(OptGet(OptGet(resp.response, "data"), "error"), resp.message)
       IN Error([k |-> "string", s |-> "TwitterAPI.io API error", status |-> statusCode, detail |-> errorMessage])
  ELSE Error(resp.message)

\* makeRequest from the await on: response.data, or the normalized error
makeRequestResult(resp) ==
  IF resp.t = "resolved" THEN Return(resp.data) ELSE Throw(normalizeError(resp))

makePostRequestResult(resp) ==
  IF resp.t = "resolved" THEN Return(resp.data) ELSE Throw(normalizeError(resp))

(***************************************************************************)
(* Result shaper                                                           *)
(***************************************************************************)
\* JSON data model of a value: object fields holding undefined are dropped,
\* undefined array elements become null
RECURSIVE Json(_)
Json(v) ==
  CASE v.k = "object" ->
         Obj([f \in {g \in DOMAIN v.o : v.o[g].k # "undefined"} |-> Json(v.o[f])])
    [] v.k = "array" ->
         Arr([i \in 1..Len(v.a) |-> IF v.a[i].k = "undefined" THEN Null ELSE Json(v.a[i])])
    [] OTHER -> v

\* JSON.stringify(data, null, 2)
JSONstringify(v) == [json |-> Json(v)]

\* encode(output) of @toon-format/toon
encode(v) == [toon |-> Json(v)]

\* `${toolName}_${timestamp}.json` joined to dir
FilePath(dir, toolName, now) == dir.s \o "/" \o toolName \o "_" \o ToString(now) \o ".json"

\* saveData: the file system after the call and the string returned
saveData(data, dir, toolName, fs, fsOk, now) ==
  IF fsOk
  THEN LET filepath == FilePath(dir, toolName, now)
       IN [fs |-> [p \in DOMAIN fs \cup {filepath} |->
                     IF p = filepath THEN JSONstringify(data) ELSE fs[p]],
           ret |-> Str(filepath)]
  ELSE [fs |-> fs, ret |-> Str("Error saving: " \o dir.s)]

\* the pagination options that always name the first page's cursor
Pagination_FixedCursor(data) ==
  Obj([has_next_page |-> Get(data, "has_next_page"), next_cursor |-> Str("abc")])

\* options.pagination of the list operations
Pagination(data) ==
  Obj([has_next_page |-> Get(data, "has_next_page"), next_cursor |-> Get(data, "next_cursor")])

OutputOf(cleanedData, pagination) ==
  IF Truthy(pagination)
  THEN Obj([data |-> cleanedData,
            pagination |-> Obj([hasNextPage |-> Get(pagination, "has_next_page"),
                                nextCursor |-> Get(pagination, "next_cursor")])])
  ELSE Obj([data |-> cleanedData])

\* formatResponse with a saveData that lets the file system's error out
formatResponse_NoCatch(cleanedData, saveDir, toolName, pagination, fs, fsOk, now) ==
  LET output == OutputOf(cleanedData, pagination)
      saving == Truthy(saveDir) /\ Truthy(Str(toolName))
      saved == IF saving THEN saveData(output, saveDir, toolName, fs, fsOk, now)
               ELSE [fs |-> fs, ret |-> Str("")]
  IN IF saving /\ ~fsOk
     THEN [out |-> ProtocolError(McpError("InternalError", Msg("EACCES: permission denied"))),
           fs |-> fs, saving |-> saving]
     ELSE [out |-> TextResult([body |-> encode(output),
                               note |-> IF Truthy(saved.ret) THEN saved.ret ELSE Str("")]),
           fs |-> saved.fs,
           saving |-> saving]

\* formatResponse: the result, the file system after it and whether the
\* clock was read
formatResponse(cleanedData, saveDir, toolName, pagination, fs, fsOk, now) ==
  LET output == OutputOf(cleanedData, pagination)
      saving == Truthy(saveDir) /\ Truthy(Str(toolName))
      saved == IF saving THEN saveData(output, saveDir, toolName, fs, fsOk, now)
               ELSE [fs |-> fs, ret |-> Str("")]
  IN [out |-> TextResult([body |-> encode(output),
                          note |-> IF Truthy(saved.ret) THEN saved.ret ELSE Str("")]),
      fs |-> saved.fs,
      saving |-> saving]

(***************************************************************************)
(* The tool operations.  Each has a synchronous part, which throws or      *)
(* sends the upstream request and suspends with its locals (k), and a      *)
(* continuation (Resume below).                                            *)
(***************************************************************************)
DefaultMaxItems == 10
MaxPageSize == 200
DefaultPageSize == 200

\* a truthy optional parameter is sent, anything else is left out
Opt(v) == IF Truthy(v) THEN v ELSE Undef

\* a default parameter value applies when the argument is undefined
Default(v, d) == IF v.k = "undefined" THEN d ELSE v

\* the locals a suspended operation keeps
Locals(tool, saveDir, maxItems) == [tool |-> tool, saveDir |-> saveDir, maxItems |-> maxItems]

\* tweetIds.join(',') on an array of strings
RECURSIVE Join(_)
Join(a) ==
  IF a = <<>> THEN ""
  ELSE IF Len(a) = 1 THEN Head(a).s
       ELSE Head(a).s \o "," \o Join(Tail(a))

getUserByUsername(username, saveDir, maxItems, cookie) ==
  Await(makeRequest("/user/info", [userName |-> username], cookie),
        Locals("get_user_by_username", saveDir, maxItems))

getUserById(userId, saveDir, maxItems, cookie) ==
  Await(makeRequest("/user/info", [user_id |-> userId], cookie),
        Locals("get_user_by_id", saveDir, maxItems))

getUserTweets(username, userId, cursor, includeReplies, saveDir, maxItems, cookie) ==
  IF ~Truthy(username) /\ ~Truthy(userId)
  THEN Throw(Error(Msg("Either username or userId must be provided")))
  ELSE Await(makeRequest("/user/last_tweets",
                         [userName |-> Opt(username), userId |-> Opt(userId),
                          cursor |-> Opt(cursor),
                          includeReplies |-> Default(includeReplies, Bool(FALSE))], cookie),
             Locals("get_user_tweets", saveDir, maxItems))

searchTweets(query, queryType, cursor, saveDir, maxItems, cookie) ==
  Await(makeRequest("/tweet/advanced_search",
                    [query |-> query, queryType |-> Default(queryType, Str("Latest")),
                     cursor |-> Opt(cursor)], cookie),
        Locals("search_tweets", saveDir, maxItems))

getTweetById(tweetIds, saveDir, maxItems, cookie) ==
  IF tweetIds.k # "array"
  THEN Throw(TypeError(Msg("tweetIds.join is not a function")))
  ELSE Await(makeRequest("/tweets", [tweet_ids |-> Str(Join(tweetIds.a))], cookie),
             Locals("get_tweet_by_id", saveDir, maxItems))

getTweetReplies(tweetId, cursor, sinceTime, untilTime, saveDir, maxItems, cookie) ==
  Await(makeRequest("/tweet/replies",
                    [tweetId |-> tweetId, cursor |-> Opt(cursor),
                     sinceTime |-> Opt(sinceTime), untilTime |-> Opt(untilTime)], cookie),
        Locals("get_tweet_replies", saveDir, maxItems))

\* the page size with its default and no upper limit
PageSize_NoClamp(pageSize) == Default(pageSize, Num(200))

\* Math.min(pageSize, 200) with the default 200
PageSize(pageSize) ==
  LET ps == Default(pageSize, Num(DefaultPageSize))
  IN Num(Min(ps.n, MaxPageSize))

getUserFollowers(username, cursor, pageSize, saveDir, maxItems, cookie) ==
  Await(makeRequest("/user/followers",
                    [userName |-> username, pageSize |-> PageSize(pageSize),
                     cursor |-> Opt(cursor)], cookie),
        Locals("get_user_followers", saveDir, maxItems))

getUserFollowing(username, cursor, pageSize, saveDir, maxItems, cookie) ==
  Await(makeRequest("/user/followings",
                    [userName |-> username, pageSize |-> PageSize(pageSize),
                     cursor |-> Opt(cursor)], cookie),
        Locals("get_user_following", saveDir, maxItems))

searchUsers(query, cursor, saveDir, maxItems, cookie) ==
  Await(makeRequest("/user/search", [query |-> query, cursor |-> Opt(cursor)], cookie),
        Locals("search_users", saveDir, maxItems))

loginUser(userName, email, password, proxy, totpSecret, cookie) ==
  Await(makePostRequest("/user_login_v2",
                        Obj([user_name |-> userName, email |-> email, password |-> password,
                             proxy |-> proxy, totp_secret |-> Opt(totpSecret)]), cookie),
        Locals("login_user", Undef, Undef))

\* createTweet without its check that a cookie is stored
createTweet_NoGuard(tweetText, proxy, replyToTweetId, attachmentUrl, mediaIds, cookie) ==
  Await(makePostRequest("/create_tweet_v2",
                        Obj([login_cookies |-> cookie, tweet_text |-> tweetText,
                             proxy |-> proxy,
                             reply_to_tweet_id |-> Opt(replyToTweetId),
                             attachment_url |-> Opt(attachmentUrl),
                             media_ids |-> IF mediaIds.k = "array" /\ Len(mediaIds.a) > 0
                                           THEN mediaIds ELSE Undef]), cookie),
        Locals("create_tweet", Undef, Undef))

createTweet(tweetText, proxy, replyToTweetId, attachmentUrl, mediaIds, cookie) ==
  IF ~Truthy(cookie)
  THEN Throw(Error(Msg("Must login first before creating tweets")))
  ELSE Await(makePostRequest("/create_tweet_v2",
                             Obj([login_cookies |-> cookie, tweet_text |-> tweetText,
                                  proxy |-> proxy,
                                  reply_to_tweet_id |-> Opt(replyToTweetId),
                                  attachment_url |-> Opt(attachmentUrl),
                                  media_ids |-> IF mediaIds.k = "array" /\ Len(mediaIds.a) > 0
                                                THEN mediaIds ELSE Undef]), cookie),
             Locals("create_tweet", Undef, Undef))

(***************************************************************************)
(* CallToolRequestSchema handler, synchronous part: the arguments check    *)
(* and the switch on the tool name.                                        *)
(***************************************************************************)
Dispatch(name, args, cookie) ==
  IF ~Truthy(args) THEN Throw(McpError("InvalidParams", Msg("Missing arguments")))
  ELSE CASE name = "get_user_by_username" ->
              getUserByUsername(Get(args, "username"), Get(args, "save_dir"),
                                Get(args, "max_items"), cookie)
         [] name = "get_user_by_id" ->
              getUserById(Get(args, "user_id"), Get(args, "save_dir"),
                          Get(args, "max_items"), cookie)
         [] name = "get_user_tweets" ->
              getUserTweets(Get(args, "username"), Get(args, "userId"), Get(args, "cursor"),
                            Get(args, "includeReplies"), Get(args, "save_dir"),
                            Get(args, "max_items"), cookie)
         [] name = "search_tweets" ->
              searchTweets(Get(args, "query"), Get(args, "queryType"), Get(args, "cursor"),
                           Get(args, "save_dir"), Get(args, "max_items"), cookie)
         [] name = "get_tweet_by_id" ->
              getTweetById(Get(args, "tweet_ids"), Get(args, "save_dir"),
                           Get(args, "max_items"), cookie)
         [] name = "get_tweet_replies" ->
              getTweetReplies(Get(args, "tweetId"), Get(args, "cursor"), Get(args, "sinceTime"),
                              Get(args, "untilTime"), Get(args, "save_dir"),
                              Get(args, "max_items"), cookie)
         [] name = "get_user_followers" ->
              getUserFollowers(Get(args, "username"), Get(args, "cursor"), Get(args, "pageSize"),
                               Get(args, "save_dir"), Get(args, "max_items"), cookie)
         [] name = "get_user_following" ->
              getUserFollowing(Get(args, "username"), Get(args, "cursor"), Get(args, "pageSize"),
                               Get(args, "save_dir"), Get(args, "max_items"), cookie)
         [] name = "search_users" ->
              searchUsers(Get(args, "query"), Get(args, "cursor"), Get(args, "save_dir"),
                          Get(args, "max_items"), cookie)
         [] name = "login_user" ->
              loginUser(Get(args, "user_name"), Get(args, "email"), Get(args, "password"),
                        Get(args, "proxy"), Get(args, "totp_secret"), cookie)
         [] name = "create_tweet" ->
              createTweet(Get(args, "tweet_text"), Get(args, "proxy"),
                          Get(args, "reply_to_tweet_id"), Get(args, "attachment_url"),
                          Get(args, "media_ids"), cookie)
         [] OTHER -> Throw(McpError("MethodNotFound", [k |-> "string", s |-> "Unknown tool", name |-> name]))

\* the catch block that wraps every error, protocol errors included
ToMcpError_WrapAll(err) ==
  McpError("InternalError", [k |-> "string", s |-> "TwitterAPI.io error", inner |-> err.message])

\* the catch block that rethrows what it caught, unwrapped
ToMcpError_Rethrow(err) ==
  IF err.cls = "McpError" THEN err
  ELSE [cls |-> err.cls, code |-> "none", message |-> err.message]

\* the handler's catch block: a McpError passes, anything else is wrapped
ToMcpError(err) ==
  IF err.cls = "McpError" THEN err
  ELSE McpError("InternalError", [k |-> "string", s |-> "TwitterAPI.io error", inner |-> err.message])

(***************************************************************************)
(* Continuations: what each operation does once the upstream answers.      *)
(* Resume gives the call's outcome, the session cookie and the file system *)
(* after it, and whether the clock was read (a file name was made).        *)
(***************************************************************************)
ListTools6 == {"get_user_tweets", "search_tweets", "get_tweet_replies",
               "get_user_followers", "get_user_following", "search_users"}
TweetListTools == {"get_user_tweets", "search_tweets", "get_tweet_replies", "get_tweet_by_id"}
UserTools == {"get_user_by_username", "get_user_by_id"}

\* the raw list an operation picks out of the upstream body
ItemsOf(tool, data) ==
  CASE tool \in {"get_user_tweets", "search_tweets", "get_tweet_by_id"} ->
         Or(Or(Get(data, "tweets"), Get(data, "data")), Arr(<<>>))
    [] tool = "get_tweet_replies" ->
         Or(Or(Or(Get(data, "tweets"), Get(data, "replies")), Get(data, "data")), Arr(<<>>))
    [] tool = "get_user_followers" ->
         Or(Or(Or(Get(data, "users"), Get(data, "followers")), Get(data, "data")), Arr(<<>>))
    [] tool = "get_user_following" ->
         Or(Or(Or(Get(data, "followings"), Get(data, "users")), Get(data, "data")), Arr(<<>>))
    [] tool = "search_users" ->
         Or(Or(Get(data, "users"), Get(data, "data")), Arr(<<>>))

\* the normalized list: DataCleaners.cleanTweetList / cleanUserList of it
NormalizedList(tool, data) ==
  IF tool \in TweetListTools THEN cleanTweetList(ItemsOf(tool, data))
  ELSE cleanUserList(ItemsOf(tool, data))

\* the truncation with the default of max_items the schemas advertise
Truncate_SchemaDefault(list, maxItems) == Slice0(list, Or(maxItems, Num(3)).n)

\* const max = maxItems || 10; list.slice(0, max)
Truncate(list, maxItems) == Slice0(list, Or(maxItems, Num(DefaultMaxItems)).n)

NullBodyError == TypeError(Msg("Cannot read properties of null"))

Shaped(r) == [out |-> r.out, cookie |-> Undef, fs |-> r.fs, saving |-> r.saving]
Failed(err, fs) == [out |-> ProtocolError(ToMcpError(err)), cookie |-> Undef, fs |-> fs, saving |-> FALSE]

\* the nine read operations after their await
ResumeRead(k, resp, fs, fsOk, now) ==
  LET r == makeRequestResult(resp)
  IN IF r.t = "throw" THEN Failed(r.err, fs)
     ELSE IF Nullish(r.val) THEN Failed(NullBodyError, fs)
     ELSE IF k.tool \in UserTools
          THEN Shaped(formatResponse(cleanUser(Or(Get(r.val, "data"), r.val)),
                                     Opt(k.saveDir), k.tool, Undef, fs, fsOk, now))
     ELSE IF k.tool = "get_tweet_by_id"
          THEN Shaped(formatResponse(Arr(NormalizedList(k.tool, r.val)),
                                     Opt(k.saveDir), k.tool, Undef, fs, fsOk, now))
     ELSE Shaped(formatResponse(Arr(Truncate(NormalizedList(k.tool, r.val), k.maxItems)),
                                Opt(k.saveDir), k.tool, Pagination(r.val), fs, fsOk, now))

\* the login that never stores the cookie it gets
StoreCookie_Never(loginData, cookie) == cookie

\* the login that stores login_cookie even when the answer has none
StoreCookie_Always(loginData, cookie) == Get(loginData, "login_cookie")

\* the login that keeps the first cookie ever stored
StoreCookie_KeepFirst(loginData, cookie) ==
  IF Truthy(cookie) THEN cookie
  ELSE IF Truthy(Get(loginData, "login_cookie")) THEN Get(loginData, "login_cookie") ELSE cookie

\* loginData.login_cookie is stored when truthy
StoreCookie(loginData, cookie) ==
  IF Truthy(Get(loginData, "login_cookie")) THEN Get(loginData, "login_cookie") ELSE cookie

LoginFailure(err) ==
  TextResult(JSONstringify(Obj([success |-> Bool(FALSE), error |-> err.message])))

\* loginUser after its await, without its own catch block
ResumeLogin_NoCatch(resp, cookie, fs) ==
  LET r == makePostRequestResult(resp)
  IN IF r.t = "throw"
     THEN [out |-> ProtocolError(ToMcpError(r.err)), cookie |-> cookie, fs |-> fs, saving |-> FALSE]
     ELSE IF Nullish(r.val)
     THEN [out |-> ProtocolError(ToMcpError(NullBodyError)), cookie |-> cookie, fs |-> fs,
           saving |-> FALSE]
     ELSE [out |-> TextResult(JSONstringify(Obj([
                     success |-> Bool(Get(r.val, "status") = Str("success")),
                     message |-> Or(Get(r.val, "msg"), Str("Login successful")),
                     login_cookie |-> Get(r.val, "login_cookie")]))),
           cookie |-> StoreCookie(r.val, cookie), fs |-> fs, saving |-> FALSE]

\* loginUser keeping a copy of its result in a file
ResumeLogin_Saves(resp, cookie, fs) ==
  LET r == makePostRequestResult(resp)
  IN IF r.t = "throw"
     THEN [out |-> LoginFailure(r.err), cookie |-> cookie, fs |-> fs, saving |-> FALSE]
     ELSE IF Nullish(r.val)
     THEN [out |-> LoginFailure(NullBodyError), cookie |-> cookie, fs |-> fs, saving |-> FALSE]
     ELSE LET result == JSONstringify(Obj([
                          success |-> Bool(Get(r.val, "status") = Str("success")),
                          message |-> Or(Get(r.val, "msg"), Str("Login successful")),
                          login_cookie |-> Get(r.val, "login_cookie")]))
          IN [out |-> TextResult(result),
              cookie |-> StoreCookie(r.val, cookie),
              fs |-> [p \in DOMAIN fs \cup {"out/login_user.json"} |->
                        IF p = "out/login_user.json" THEN result ELSE fs[p]],
              saving |-> FALSE]

\* loginUser after its await, with its own catch block
ResumeLogin(resp, cookie, fs) ==
  LET r == makePostRequestResult(resp)
  IN IF r.t = "throw"
     THEN [out |-> LoginFailure(r.err), cookie |-> cookie, fs |-> fs, saving |-> FALSE]
     ELSE IF Nullish(r.val)
     THEN [out |-> LoginFailure(NullBodyError), cookie |-> cookie, fs |-> fs, saving |-> FALSE]
     ELSE [out |-> TextResult(JSONstringify(Obj([
                     success |-> Bool(Get(r.val, "status") = Str("success")),
                     message |-> Or(Get(r.val, "msg"), Str("Login successful")),
                     login_cookie |-> Get(r.val, "login_cookie")]))),
           cookie |-> StoreCookie(r.val, cookie), fs |-> fs, saving |-> FALSE]

\* createTweet dropping the cookie when the post fails
ResumeCreate_DropsCookie(resp, cookie, fs) ==
  LET r == makePostRequestResult(resp)
  IN IF r.t = "throw"
     THEN [out |-> ProtocolError(ToMcpError(r.err)), cookie |-> Null, fs |-> fs, saving |-> FALSE]
     ELSE [out |-> TextResult(JSONstringify(r.val)), cookie |-> cookie, fs |-> fs, saving |-> FALSE]

\* createTweet after its await
ResumeCreate(resp, cookie, fs) ==
  LET r == makePostRequestResult(resp)
  IN IF r.t = "throw"
     THEN [out |-> ProtocolError(ToMcpError(r.err)), cookie |-> cookie, fs |-> fs, saving |-> FALSE]
     ELSE [out |-> TextResult(JSONstringify(r.val)), cookie |-> cookie, fs |-> fs, saving |-> FALSE]

Resume(k, resp, cookie, fs, fsOk, now) ==
  CASE k.tool = "login_user" -> ResumeLogin(resp, cookie, fs)
    [] k.tool = "create_tweet" -> ResumeCreate(resp, cookie, fs)
    [] OTHER -> [ResumeRead(k, resp, fs, fsOk, now) EXCEPT !.cookie = cookie]

(***************************************************************************)
(* ListToolsRequestSchema handler: the static tool table (name, required   *)
(* fields, advertised default of max_items where the tool has one).        *)
(***************************************************************************)
NoDefault == [none |-> TRUE]

\* the tool table with a tool the dispatcher has no case for
ToolTable_Extra == <<
  [name |-> "get_user_by_username", required |-> {"username"}, max_items |-> Num(3)],
  [name |-> "get_user_by_id", required |-> {"user_id"}, max_items |-> Num(3)],
  [name |-> "get_user_tweets", required |-> {}, max_items |-> Num(3)],
  [name |-> "search_tweets", required |-> {"query"}, max_items |-> Num(3)],
  [name |-> "get_tweet_by_id", required |-> {"tweet_ids"}, max_items |-> Num(3)],
  [name |-> "get_tweet_replies", required |-> {"tweetId"}, max_items |-> Num(3)],
  [name |-> "get_user_followers", required |-> {"username"}, max_items |-> Num(3)],
  [name |-> "get_user_following", required |-> {"username"}, max_items |-> Num(3)],
  [name |-> "search_users", required |-> {"query"}, max_items |-> Num(3)],
  [name |-> "login_user", required |-> {"user_name", "email", "password", "proxy"},
   max_items |-> NoDefault],
  [name |-> "create_tweet", required |-> {"tweet_text", "proxy"}, max_items |-> NoDefault],
  [name |-> "logout_user", required |-> {}, max_items |-> NoDefault] >>

ToolTable == <<
  [name |-> "get_user_by_username", required |-> {"username"}, max_items |-> Num(3)],
  [name |-> "get_user_by_id", required |-> {"user_id"}, max_items |-> Num(3)],
  [name |-> "get_user_tweets", required |-> {}, max_items |-> Num(3)],
  [name |-> "search_tweets", required |-> {"query"}, max_items |-> Num(3)],
  [name |-> "get_tweet_by_id", required |-> {"tweet_ids"}, max_items |-> Num(3)],
  [name |-> "get_tweet_replies", required |-> {"tweetId"}, max_items |-> Num(3)],
  [name |-> "get_user_followers", required |-> {"username"}, max_items |-> Num(3)],
  [name |-> "get_user_following", required |-> {"username"}, max_items |-> Num(3)],
  [name |-> "search_users", required |-> {"query"}, max_items |-> Num(3)],
  [name |-> "login_user", required |-> {"user_name", "email", "password", "proxy"},
   max_items |-> NoDefault],
  [name |-> "create_tweet", required |-> {"tweet_text", "proxy"}, max_items |-> NoDefault] >>

Tools == {ToolTable[i].name : i \in 1..Len(ToolTable)}

Required(name) == ToolTable[CHOOSE i \in 1..Len(ToolTable) : ToolTable[i].name = name].required

(***************************************************************************)
(* State                                                                   *)
(*   loginCookie  the session cookie (this.loginCookie), Null when absent  *)
(*   pending      the calls suspended at their await, by call id           *)
(*   issued       number of tool calls received so far                     *)
(*   clock        the time last read by new Date()                         *)
(*   files        the files written by saveData, by path                   *)
(*   last         the latest event: a request sent upstream, a call's      *)
(*                outcome, or a tools/list answer                          *)
(***************************************************************************)
NoReq == [none |-> "request"]
NoResp == [none |-> "response"]

Init ==
  /\ loginCookie = Null
  /\ pending = <<>>
  /\ issued = 0
  /\ clock = 0
  /\ files = <<>>
  /\ last = [ev |-> "start"]

Without(f, x) == [y \in DOMAIN f \ {x} |-> f[y]]

\* A tools/call request arrives: the handler runs up to its await, or to
\* the protocol error it throws before any await.
Invoke(name, args) ==
  /\ issued < MaxCalls
  /\ LET id == issued + 1
         step == Dispatch(name, args, loginCookie)
     IN /\ issued' = id
        /\ IF step.t = "await"
           THEN /\ Cardinality(DOMAIN pending) < MaxInflight
                /\ pending' = [i \in DOMAIN pending \cup {id} |->
                                 IF i = id THEN [name |-> name, args |-> args,
                                                 k |-> step.k, req |-> step.req]
                                 ELSE pending[i]]
                /\ last' = [ev |-> "sent", id |-> id, name |-> name, args |-> args,
                            req |-> step.req, cookieBefore |-> loginCookie]
           ELSE /\ pending' = pending
                /\ last' = [ev |-> "outcome", id |-> id, name |-> name, args |-> args,
                            req |-> NoReq, resp |-> NoResp,
                            out |-> ProtocolError(ToMcpError(step.err)),
                            cookieBefore |-> loginCookie]
  /\ UNCHANGED <<loginCookie, clock, files>>

\* The answer handling that sends the request again when it failed
Respond_Retry(id, resp, fsOk, now) ==
  /\ id \in DOMAIN pending
  /\ now >= clock
  /\ IF resp.t # "resolved"
     THEN /\ fsOk /\ now = clock
          /\ last' = [ev |-> "sent", id |-> id, name |-> pending[id].name,
                      args |-> pending[id].args, req |-> pending[id].req,
                      cookieBefore |-> loginCookie]
          /\ UNCHANGED <<loginCookie, pending, issued, clock, files>>
     ELSE /\ LET c == pending[id]
                 r == Resume(c.k, resp, loginCookie, files, fsOk, now)
             IN /\ (~r.saving) => (fsOk /\ now = clock)
                /\ loginCookie' = r.cookie
                /\ files' = r.fs
                /\ clock' = now
                /\ last' = [ev |-> "outcome", id |-> id, name |-> c.name, args |-> c.args,
                            req |-> c.req, resp |-> resp, out |-> r.out,
                            cookieBefore |-> loginCookie]
          /\ pending' = Without(pending, id)
          /\ UNCHANGED issued

\* The upstream answer of a suspended call arrives and the call runs to its
\* end.  fsOk: whether the file system accepts the write; now: the time
\* new Date() reads (only a call that saves reads it).
Respond(id, resp, fsOk, now) ==
  /\ id \in DOMAIN pending
  /\ now >= clock
  /\ LET c == pending[id]
         r == Resume(c.k, resp, loginCookie, files, fsOk, now)
     IN /\ (~r.saving) => (fsOk /\ now = clock)
        /\ loginCookie' = r.cookie
        /\ files' = r.fs
        /\ clock' = now
        /\ last' = [ev |-> "outcome", id |-> id, name |-> c.name, args |-> c.args,
                    req |-> c.req, resp |-> resp, out |-> r.out,
                    cookieBefore |-> loginCookie]
  /\ pending' = Without(pending, id)
  /\ UNCHANGED issued

\* A tools/list request is answered from the static table.
ListTools ==
  /\ last' = [ev |-> "tools", tools |-> ToolTable]
  /\ UNCHANGED <<loginCookie, pending, issued, clock, files>>

(***************************************************************************)
(* Inputs: tool calls and upstream answers                                 *)
(***************************************************************************)
Names == Tools \cup {"unknown_tool"}

Cookie1 == Str("cookie-1")
Cookie2 == Str("cookie-2")

Merge(f, g) == [x \in DOMAIN f \cup DOMAIN g |-> IF x \in DOMAIN f THEN f[x] ELSE g[x]]

\* an argument object with no field at all
EmptyArgs == Obj(<<>>)

\* one argument object per tool with every required field present
FullArgs(name) ==
  CASE name = "get_user_by_username" -> [username |-> Str("alice")]
    [] name = "get_user_by_id" -> [user_id |-> Str("42")]
    [] name = "get_user_tweets" -> [username |-> Str("alice")]
    [] name = "search_tweets" -> [query |-> Str("AI")]
    [] name = "get_tweet_by_id" -> [tweet_ids |-> Arr(<<Str("1"), Str("2")>>)]
    [] name = "get_tweet_replies" -> [tweetId |-> Str("1")]
    [] name = "get_user_followers" -> [username |-> Str("alice")]
    [] name = "get_user_following" -> [username |-> Str("alice")]
    [] name = "search_users" -> [query |-> Str("dev")]
    [] name = "login_user" -> [user_name |-> Str("alice"), email |-> Str("a@x.io"),
                               password |-> Str("pw"), proxy |-> Str("http://p:1")]
    [] name = "create_tweet" -> [tweet_text |-> Str("hello"), proxy |-> Str("http://p:1")]
    [] OTHER -> [anything |-> Str("x")]

\* the values of max_items tried, and the optional fields added to a call
MaxItemsArgs == {Num(n) : n \in 0..3}

Extras == {[max_items |-> m] : m \in MaxItemsArgs}

Call(name, args) == [name |-> name, args |-> args]

\* the calls that ask for the cleaned data to be saved
SaveCalls ==
  { Call("search_tweets", Obj([query |-> Str("AI"), save_dir |-> Str("out"),
                               max_items |-> Num(1)])) }

\* the calls of the session specification: login, posting, one read tool and
\* an unknown tool
SessionCalls ==
  {Call(n, Undef) : n \in {"login_user", "create_tweet"}}
  \cup {Call(n, Obj(FullArgs(n))) :
          n \in {"login_user", "create_tweet", "get_user_by_username", "unknown_tool"}}
  \cup {Call("create_tweet", EmptyArgs)}

\* the calls of the tools specification: every name, without arguments, with
\* an empty argument object, with the required fields, and the list and user
\* tools with the optional fields too
ToolCalls ==
  {Call(n, a) : n \in Names, a \in {Undef, EmptyArgs}}
  \cup {Call(n, Obj(FullArgs(n))) : n \in Names}
  \cup {Call(n, Obj(Merge(FullArgs(n), e))) :
          n \in ListTools6 \cup {"get_tweet_by_id"}, e \in Extras}
  \cup SaveCalls
  \cup {Call("get_user_tweets", Obj([userId |-> Str("42")]))}

\* the calls of the fair specification: every name without arguments and
\* with the required fields, the operations that throw before their request
\* on an empty argument object, and a call that saves
FairCalls ==
  {Call(n, Undef) : n \in Names}
  \cup {Call(n, Obj(FullArgs(n))) : n \in Names}
  \cup {Call(n, EmptyArgs) : n \in {"get_user_tweets", "get_tweet_by_id", "create_tweet"}}
  \cup SaveCalls

RawUser1 == Obj([id |-> Str("u1"), userName |-> Str("alice")])
RawUser2 == Obj([id |-> Str("u2"), screen_name |-> Str("bob")])
RawUser3 == Obj([id |-> Str("u3"), username |-> Str("carol")])
RawTweet1 == Obj([id |-> Str("t1"), text |-> Str("one"), author |-> RawUser1])
RawTweet2 == Obj([id |-> Str("t2"), text |-> Str("two"), retweetCount |-> Num(0)])
RawTweet3 == Obj([id |-> Str("t3"), text |-> Str("three")])

\* upstream failures: no response at all, a response with an error field,
\* without one, with an empty one, and an error that is not an axios error
Failures ==
  { AxiosError(Undef, Str("timeout of 30000ms exceeded")),
    AxiosError(Obj([status |-> Num(429), data |-> Obj([error |-> Str("rate limited")])]),
               Str("Request failed with status code 429")),
    AxiosError(Obj([status |-> Num(404), data |-> Obj(<<>>)]),
               Str("Request failed with status code 404")),
    AxiosError(Obj([status |-> Num(502), data |-> Obj([error |-> Str("")])]),
               Str("Request failed with status code 502")),
    OtherError(Str("socket closed")) }

Page(list, field) ==
  Obj(Merge([has_next_page |-> Bool(TRUE), next_cursor |-> Str("abc")], field :> Arr(list)))

UserLists == {<<>>, <<RawUser1, RawUser2, RawUser3>>, <<RawUser1, Null, RawUser2, RawUser3>>}
TweetLists == {<<>>, <<RawTweet1, RawTweet2, RawTweet3>>, <<RawTweet1, Null, RawTweet2, RawTweet3>>}

LoginBodies ==
  {Obj([status |-> Str(st), msg |-> Str("m"), login_cookie |-> c]) :
     st \in {"success", "error"}, c \in {Undef, Str(""), Cookie1, Cookie2}}

\* the upstream answers a tool's request can get: a failure, a null body, a
\* body that is not an object, or a body of the tool's kind
Answers(name) ==
  Failures \cup {Resolved(Null), Resolved(Str("<html>"))} \cup
  CASE name \in UserTools -> {Resolved(Obj([data |-> RawUser1])), Resolved(RawUser2)}
    [] name \in {"get_user_tweets", "search_tweets", "get_tweet_by_id"} ->
         {Resolved(Page(l, "tweets")) : l \in TweetLists}
    [] name = "get_tweet_replies" -> {Resolved(Page(l, "replies")) : l \in TweetLists}
    [] name = "get_user_followers" -> {Resolved(Page(l, "followers")) : l \in UserLists}
    [] name = "get_user_following" -> {Resolved(Page(l, "followings")) : l \in UserLists}
    [] name = "search_users" -> {Resolved(Page(l, "users")) : l \in UserLists}
    [] name = "login_user" -> {Resolved(b) : b \in LoginBodies}
    [] name = "create_tweet" ->
         {Resolved(Obj([status |-> Str("success"), tweet_id |-> Str("t9")]))}
    [] OTHER -> {}

(***************************************************************************)
(* Specifications                                                          *)
(***************************************************************************)
InvokeSession == \E c \in SessionCalls : Invoke(c.name, c.args)

InvokeTool ==
  /\ pending = <<>>
  /\ issued < MaxToolCalls
  /\ \E c \in ToolCalls : Invoke(c.name, c.args)

Answer ==
  \E id \in DOMAIN pending : \E resp \in Answers(pending[id].name) :
    \E fsOk \in BOOLEAN, now \in 0..MaxClock : Respond(id, resp, fsOk, now)

\* the session: calls may overlap
Next == InvokeSession \/ Answer \/ ListTools

Spec == Init /\ [][Next]_vars

\* the tools: every tool and every kind of argument, one call at a time
NextTools == InvokeTool \/ Answer \/ ListTools

SpecTools == Init /\ [][NextTools]_vars

\* the upstream request of the suspended call eventually returns or fails
\* (the HTTP client has a 30 s timeout); one call is suspended at a time

InvokeFair ==
  /\ pending = <<>>
  /\ issued < MaxToolCalls
  /\ \E c \in FairCalls : Invoke(c.name, c.args)

NextFair == InvokeFair \/ Answer \/ ListTools

FairSpecTools == Init /\ [][NextFair]_vars /\ WF_vars(Answer)

(***************************************************************************)
(* Reading the latest event                                                *)
(***************************************************************************)
\* the latest event is the arrival of a call: it sent its request, or ended
\* before sending one; cookieBefore is then the cookie stored at invocation
Invoked == last.ev = "sent" \/ (last.ev = "outcome" /\ last.req = NoReq)

\* the latest event is the end of a call
Ended == last.ev = "outcome"

\* the latest event is the end of a call whose upstream request was answered
Answered == last.ev = "outcome" /\ last.resp # NoResp

ErrorCodes == {"InvalidParams", "MethodNotFound", "InternalError"}

Precondition == Msg("Must login first before creating tweets")

\* C1 as stated: a create_tweet call invoked while no session cookie is
\* stored fails with the precondition error and sends no upstream request.
C1_AsStated ==
  (Invoked /\ last.name = "create_tweet" /\ ~Truthy(last.cookieBefore))
    => /\ last.ev = "outcome"
       /\ last.req = NoReq
       /\ last.out.t = "error"
       /\ last.out.message.k = "string"
       /\ "inner" \in DOMAIN last.out.message
       /\ last.out.message.inner = Precondition

\* C1 (amended): a create_tweet call invoked with an argument object while
\* no session cookie is stored (a login may be in flight) fails with the
\* precondition error 'Must login first before creating tweets', wrapped as
\* an InternalError, and sends no upstream request.
C1_Precondition ==
  (Invoked /\ last.name = "create_tweet" /\ Truthy(last.args) /\ ~Truthy(last.cookieBefore))
    => /\ last.ev = "outcome"
       /\ last.req = NoReq
       /\ last.out.t = "error"
       /\ last.out.code = "InternalError"
       /\ "inner" \in DOMAIN last.out.message
       /\ last.out.message.inner = Precondition
       /\ last.id \notin DOMAIN pending

C1_Witness ==
  /\ Invoked /\ last.name = "create_tweet" /\ Truthy(last.args)
  /\ ~Truthy(last.cookieBefore)
  /\ last.out.t = "error"
  /\ \E id \in DOMAIN pending : pending[id].name = "login_user"

\* C2 as stated: after a login_user call whose upstream response reports
\* success a session cookie is stored, and every create_tweet call invoked
\* while a cookie is stored sends a request whose body field login_cookies
\* holds the stored cookie.
ReportsSuccess(resp) ==
  resp.t = "resolved" /\ Get(resp.data, "status") = Str("success")

C2_AsStated ==
  /\ (Answered /\ last.name = "login_user" /\ ReportsSuccess(last.resp))
       => Truthy(loginCookie)
  /\ (Invoked /\ last.name = "create_tweet" /\ Truthy(last.cookieBefore))
       => /\ last.ev = "sent"
          /\ Get(last.req.data, "login_cookies") = loginCookie

\* C2 (amended): after a login_user call whose upstream response reports
\* success and carries a non-empty login_cookie, that cookie is the stored
\* session cookie, and every create_tweet call invoked with an argument
\* object while a cookie is stored sends an upstream POST whose body field
\* login_cookies holds the stored session cookie.
C2_CookieInBody ==
  /\ (Answered /\ last.name = "login_user" /\ ReportsSuccess(last.resp)
        /\ Truthy(OptGet(last.resp.data, "login_cookie")))
       => loginCookie = OptGet(last.resp.data, "login_cookie")
  /\ (Invoked /\ last.name = "create_tweet" /\ Truthy(last.args) /\ Truthy(last.cookieBefore))
       => /\ last.ev = "sent"
          /\ last.req.method = "POST"
          /\ last.req.endpoint = "/create_tweet_v2"
          /\ Get(last.req.data, "login_cookies") = loginCookie
          /\ last.id \in DOMAIN pending

C2_Witness ==
  /\ last.ev = "sent" /\ last.name = "create_tweet"
  /\ Get(last.req.data, "login_cookies") = Cookie2
  /\ loginCookie = Cookie2

\* C3: the session cookie is absent at process start, once set it is never
\* absent again whatever calls follow, and a later login that returns a
\* cookie overwrites it.
C3_NeverCleared ==
  /\ loginCookie = Null
  /\ [][Truthy(loginCookie) => Truthy(loginCookie')]_vars
  /\ []((Answered /\ last.name = "login_user" /\ last.resp.t = "resolved"
           /\ Truthy(OptGet(last.resp.data, "login_cookie")))
          => loginCookie = OptGet(last.resp.data, "login_cookie"))

C3_Witness ==
  /\ Answered /\ last.name = "login_user"
  /\ last.cookieBefore = Cookie1
  /\ loginCookie = Cookie2

C3_WitnessKept ==
  /\ Answered /\ last.name = "login_user"
  /\ last.resp.t = "resolved" /\ ~Truthy(OptGet(last.resp.data, "login_cookie"))
  /\ last.cookieBefore = Cookie1
  /\ loginCookie = Cookie1

\* C4 as stated: a login_user call whose upstream response does not report
\* success, or whose upstream request fails, leaves the stored session
\* cookie unchanged.
C4_AsStated ==
  (Answered /\ last.name = "login_user" /\ ~ReportsSuccess(last.resp))
    => loginCookie = last.cookieBefore

\* C5: an upstream failure of the login request never ends login_user in a
\* protocol error: the call returns a text result with success: false and
\* the error message; the same failure in any other tool ends in a typed
\* protocol error.
UpstreamFailed == Answered /\ last.resp.t \in {"axiosError", "otherError"}

C5_LoginSoftFailure ==
  UpstreamFailed =>
    IF last.name = "login_user"
    THEN /\ last.out.t = "result"
         /\ last.out.type = "text"
         /\ Get(last.out.text.json, "success") = Bool(FALSE)
         /\ Get(last.out.text.json, "error") = normalizeError(last.resp).message
    ELSE /\ last.out.t = "error"
         /\ last.out.code \in ErrorCodes

C5_Witness ==
  /\ UpstreamFailed /\ last.name = "login_user"
  /\ last.resp.t = "axiosError"
  /\ last.out.t = "result"

\* C6 as stated: a known tool called with an argument object in which a
\* required field is missing ends in an InvalidParams protocol error.
MissingRequired(name, args) ==
  \/ \E f \in Required(name) : Get(args, f).k = "undefined"
  \/ /\ name = "get_user_tweets"
     /\ Get(args, "username").k = "undefined"
     /\ Get(args, "userId").k = "undefined"

C6_AsStated ==
  (last.ev \in {"sent", "outcome"} /\ last.name \in Tools /\ Truthy(last.args)
     /\ MissingRequired(last.name, last.args))
    => /\ last.ev = "outcome"
       /\ last.out.t = "error"
       /\ last.out.code = "InvalidParams"

\* C7: a tool name that is not one of the eleven listed tools, called with
\* an argument object, ends in a MethodNotFound protocol error, sends no
\* upstream request and leaves the session cookie unchanged.
C7_UnknownTool ==
  /\ Len(ToolTable) = 11 /\ Cardinality(Tools) = 11
  /\ (last.ev \in {"sent", "outcome"} /\ last.name \notin Tools /\ Truthy(last.args))
       => /\ last.ev = "outcome"
          /\ last.out.t = "error"
          /\ last.out.code = "MethodNotFound"
          /\ last.req = NoReq
          /\ last.id \notin DOMAIN pending
          /\ loginCookie = last.cookieBefore

C7_Witness ==
  /\ Ended /\ last.name = "unknown_tool" /\ Truthy(last.args)
  /\ last.out.code = "MethodNotFound"
  /\ Truthy(loginCookie)

\* the status code and the message an upstream failure should be reported with
ExpectedStatus(resp) ==
  IF resp.t = "axiosError" /\ OptGet(resp.response, "status").k = "number"
  THEN OptGet(resp.response, "status") ELSE Num(500)

ErrorField(resp) ==
  IF resp.t = "axiosError" THEN OptGet(OptGet(resp.response, "data"), "error") ELSE Undef

HasResp == "t" \in DOMAIN last.resp

\* C8 as stated: for every tool other than login_user, a failure that is not
\* already a protocol error reaches the caller as an InternalError whose
\* message carries the upstream status code (500 without one) and the
\* upstream error field when present, else the transport error message.
C8_AsStated ==
  (Ended /\ last.name # "login_user" /\ last.out.t = "error"
     /\ last.out.code \notin {"InvalidParams", "MethodNotFound"})
    => /\ last.out.code = "InternalError"
       /\ "status" \in DOMAIN last.out.message.inner
       /\ last.out.message.inner.status =
            (IF HasResp THEN ExpectedStatus(last.resp) ELSE Num(500))
       /\ HasResp /\ last.resp.t # "resolved"
       /\ last.out.message.inner.detail =
            (IF ErrorField(last.resp).k # "undefined" THEN ErrorField(last.resp)
             ELSE last.resp.message)

\* C8 (amended): for every tool other than login_user, every upstream failure
\* ends in an error, and every error reaches the caller as a protocol error
\* whose code is InvalidParams when the call had no argument object,
\* MethodNotFound when the tool is unknown, and InternalError otherwise; when
\* the failure is an HTTP failure reported by the HTTP client the message
\* carries the upstream status code (500 without one) and the upstream error
\* field when it is present and not empty, else the transport error message;
\* any other failure carries its own message and no status code.
C8_ErrorTaxonomy ==
  (Ended /\ last.name # "login_user")
    => /\ (HasResp /\ last.resp.t # "resolved") => last.out.t = "error"
       /\ last.out.t = "error" =>
            /\ last.out.code =
                 (IF ~Truthy(last.args) THEN "InvalidParams"
                  ELSE IF last.name \notin Tools THEN "MethodNotFound"
                  ELSE "InternalError")
            /\ (HasResp /\ last.resp.t = "axiosError") =>
                 last.out.message.inner =
                   [k |-> "string", s |-> "TwitterAPI.io API error",
                    status |-> ExpectedStatus(last.resp),
                    detail |-> IF Truthy(ErrorField(last.resp)) THEN ErrorField(last.resp)
                               ELSE last.resp.message]
            /\ (last.out.code = "InternalError" /\ ~(HasResp /\ last.resp.t = "axiosError")) =>
                 "status" \notin DOMAIN last.out.message.inner

C8_Witness ==
  /\ Answered /\ last.name = "search_tweets"
  /\ last.resp.t = "axiosError" /\ last.resp.response = Undef
  /\ last.out.t = "error" /\ last.out.code = "InternalError"
  /\ last.out.message.inner.status = Num(500)

\* C9: every tool call, whatever the tool name, the arguments, the upstream
\* outcome and the outcome of saving, eventually ends, provided its upstream
\* request returns or fails; it ends exactly once, in a text result or in a
\* typed protocol error, and the server then takes the next call.
WellFormedOutcome(o) ==
  \/ o.t = "result" /\ o.type = "text"
  \/ o.t = "error" /\ o.code \in ErrorCodes /\ o.message.k = "string"

C9_Completes ==
  /\ \A id \in 1..MaxToolCalls :
       (id \in DOMAIN pending) ~> (Ended /\ last.id = id /\ id \notin DOMAIN pending)
  /\ [](Ended => WellFormedOutcome(last.out))
  /\ [](last.ev \in {"sent", "outcome"} => (last.id \in DOMAIN pending <=> last.ev = "sent"))
  /\ [][(last' # last /\ last'.ev = "outcome")
          => /\ last'.id \in DOMAIN pending \/ (last'.id = issued + 1 /\ issued' = issued + 1)
             /\ last'.id \notin DOMAIN pending'
             /\ DOMAIN pending' \subseteq 1..issued']_vars
  /\ []((pending = <<>> /\ issued < MaxToolCalls /\ issued < MaxCalls) => ENABLED InvokeFair)

C9_Witness ==
  /\ Answered /\ last.name = "search_tweets"
  /\ last.out.t = "result"
  /\ last.out.text.note = Str("Error saving: out")
  /\ last.id = 2

\* C10 as stated: for the truncating list operations, a normalized list of
\* length L and max_items = N >= 0, the returned data list is the first
\* min(L, N) elements of the normalized list, in order, never more than N.
C10_AsStated ==
  (Answered /\ last.name \in ListTools6 /\ last.out.t = "result"
     /\ Get(last.args, "max_items").k = "number" /\ Get(last.args, "max_items").n >= 0)
    => LET N == Get(last.args, "max_items").n
           norm == NormalizedList(last.name, last.resp.data)
           n == Min(Len(norm), N)
           data == Get(last.out.text.body.toon, "data")
       IN /\ data.k = "array"
          /\ Len(data.a) = n
          /\ Len(data.a) <= N
          /\ data.a = [i \in 1..n |-> Json(norm[i])]

(***************************************************************************)
(* Long lists and optional parameters: the list operations called without  *)
(* max_items, with pageSize and with queryType, answered by pages of up to *)
(* MaxListLen items.                                                       *)
(***************************************************************************)
MaxListLen == 20

RawTweetN(i) == Obj([id |-> Num(i), text |-> Str("tweet")])
RawUserN(i) == Obj([id |-> Num(i), userName |-> Str("user")])

\* the first n items of the upstream list of a tool
LongList(name, n) ==
  [i \in 1..n |-> IF name \in TweetListTools THEN RawTweetN(i) ELSE RawUserN(i)]

\* the body field the tool reads its list from
ListField(name) ==
  CASE name \in TweetListTools -> "tweets"
    [] name = "get_user_following" -> "followings"
    [] OTHER -> "users"

PageSizeArgs == {Num(1), Num(199), Num(200), Num(201), Num(500)}
QueryTypeArgs == {Str("Latest"), Str("Top"), Str("popular")}

\* the list operations without max_items and with one above the default,
\* the follower operations with a pageSize, the search with a queryType
ListCalls ==
  {Call(n, Obj(FullArgs(n))) : n \in ListTools6 \cup {"get_tweet_by_id"}}
  \cup {Call(n, Obj(Merge(FullArgs(n), [max_items |-> Num(12)]))) : n \in ListTools6}
  \cup {Call(n, Obj(Merge(FullArgs(n), [pageSize |-> p]))) :
          n \in {"get_user_followers", "get_user_following"}, p \in PageSizeArgs}
  \cup {Call("search_tweets", Obj(Merge(FullArgs("search_tweets"), [queryType |-> q]))) :
          q \in QueryTypeArgs}

InvokeList ==
  /\ pending = <<>>
  /\ issued < MaxToolCalls
  /\ \E c \in ListCalls : Invoke(c.name, c.args)

AnswerList ==
  \E id \in DOMAIN pending : \E n \in 0..MaxListLen :
    Respond(id, Resolved(Page(LongList(pending[id].name, n), ListField(pending[id].name))),
            TRUE, clock)

NextLists == InvokeList \/ AnswerList

SpecLists == Init /\ [][NextLists]_vars

(***************************************************************************)
(* Reading a shaped result                                                 *)
(***************************************************************************)
\* the latest event is a read call that ended with a shaped result
ShapedOutcome ==
  /\ Answered
  /\ last.name \in ListTools6 \cup UserTools \cup {"get_tweet_by_id"}
  /\ last.out.t = "result"

\* the envelope decoded from the response text, and its data array
EnvelopeOf(out) == out.text.body.toon
DataOf(out) == EnvelopeOf(out).o.data

\* the raw list of the upstream answer, and its normalized elements as the
\* response text holds them
RawItems == ItemsOf(last.name, last.resp.data).a
NormalizedItem(name, raw) == Json(IF name \in TweetListTools THEN cleanTweet(raw) ELSE cleanUser(raw))

MaxItemsOmitted == Get(last.args, "max_items") = Undef

AdvertisedDefault(name) ==
  ToolTable[CHOOSE i \in 1..Len(ToolTable) : ToolTable[i].name = name].max_items

C12_AsStated ==
  (ShapedOutcome /\ last.name \in ListTools6 \cup {"get_tweet_by_id"} /\ MaxItemsOmitted) =>
    Len(DataOf(last.out).a) <= AdvertisedDefault(last.name).n

(***************************************************************************)
(* The data cleaners on their own: a step applies one cleaner to one raw   *)
(* value and records the value and the result as the latest event.  The    *)
(* cleaners keep no state, so one application per behaviour covers them.   *)
(***************************************************************************)
MaxRawLen == 3

\* the objects with the fields F, each holding one of the values V
Fields(F, V) == {Obj(f) : f \in [F -> V]}

Counts == {Undef, Null, Num(0), Num(5), Num(7)}
Dates == {Undef, Str(""), Str("2020"), Str("2021")}
Handles == {Undef, Str(""), Str("a"), Str("b")}
Flags == {Undef, Bool(FALSE), Bool(TRUE)}

\* values that are not objects
NonObjects == {Undef, Null, Num(0), Num(5), Str(""), Str("x"), Bool(FALSE), Bool(TRUE)}

\* raw users: every combination of the candidate fields of one canonical
\* field at a time
RawUsers ==
  Fields({"userName", "screen_name", "username"}, Handles)
  \cup Fields({"isVerified", "verified", "isBlueVerified"}, Flags)
  \cup Fields({"followers", "followers_count"}, Counts)
  \cup Fields({"following", "following_count"}, Counts)
  \cup Fields({"statusesCount", "statuses_count", "tweet_count"}, {Undef, Num(0), Num(5), Num(7)})
  \cup Fields({"createdAt", "created_at"}, Dates)
  \cup Fields({"id", "name", "description", "location", "url"}, {Undef, Str(""), Str("x")})

Metrics(count, metric) ==
  {Obj(count :> c @@ "public_metrics" :> pm) :
     c \in {Undef, Null, Num(0), Num(5)},
     pm \in {Undef, Null, Num(1), Obj(<<>>), Obj(metric :> Num(0)), Obj(metric :> Num(9))}}

RawTweets ==
  Fields({"createdAt", "created_at"}, Dates)
  \cup Metrics("retweetCount", "retweet_count")
  \cup Metrics("likeCount", "like_count")
  \cup Metrics("replyCount", "reply_count")
  \cup Metrics("quoteCount", "quote_count")
  \cup Fields({"viewCount"}, {Undef, Num(0), Num(3)})
  \cup Fields({"isReply", "isRetweet"}, Flags)
  \cup Fields({"inReplyToId", "in_reply_to"}, Handles)
  \cup {Obj([id |-> Str("t1"), author |-> a]) :
          a \in {Undef, Null, Num(0), Obj(<<>>), RawUser1, RawUser2}}
  \cup Fields({"id", "text", "conversationId", "lang"}, {Undef, Str("x")})

SeqsUpTo(S, n) == UNION {[1..m -> S] : m \in 0..n}

\* what a list cleaner may be handed: an array of anything, or no array
RawUserLists ==
  {Arr(l) : l \in SeqsUpTo({Null, Undef, Num(0), Obj(<<>>), RawUser1, RawUser2}, MaxRawLen)}
  \cup NonObjects \cup {RawUser1}

RawTweetLists ==
  {Arr(l) : l \in SeqsUpTo({Null, Undef, Str(""), RawTweet1, RawTweet2}, MaxRawLen)}
  \cup NonObjects \cup {RawTweet1}

Cleaned(fn, raw, out) == [ev |-> fn, raw |-> raw, out |-> out]

NormalizeUser ==
  /\ last.ev = "start"
  /\ \E u \in RawUsers \cup NonObjects : last' = Cleaned("cleanUser", u, cleanUser(u))
  /\ UNCHANGED <<loginCookie, pending, issued, clock, files>>

NormalizeTweet ==
  /\ last.ev = "start"
  /\ \E t \in RawTweets \cup NonObjects : last' = Cleaned("cleanTweet", t, cleanTweet(t))
  /\ UNCHANGED <<loginCookie, pending, issued, clock, files>>

NormalizeUserList ==
  /\ last.ev = "start"
  /\ \E l \in RawUserLists : last' = Cleaned("cleanUserList", l, Arr(cleanUserList(l)))
  /\ UNCHANGED <<loginCookie, pending, issued, clock, files>>

NormalizeTweetList ==
  /\ last.ev = "start"
  /\ \E l \in RawTweetLists : last' = Cleaned("cleanTweetList", l, Arr(cleanTweetList(l)))
  /\ UNCHANGED <<loginCookie, pending, issued, clock, files>>

NextClean == NormalizeUser \/ NormalizeTweet \/ NormalizeUserList \/ NormalizeTweetList

SpecClean == Init /\ [][NextClean]_vars

(***************************************************************************)
(* C13  Normalization is idempotent: normalizing a normalized user or a    *)
(* normalized tweet again gives the same value, field by field.            *)
(***************************************************************************)
\* the same value, null and undefined taken as the same absence
SameValue(a, b) == a = b \/ (Nullish(a) /\ Nullish(b))

SameFields(a, b) ==
  IF a.k = "object" /\ b.k = "object"
  THEN DOMAIN a.o = DOMAIN b.o /\ \A f \in DOMAIN a.o : SameValue(a.o[f], b.o[f])
  ELSE a = b

C13_AsStated ==
  /\ last.ev = "cleanUser" => SameFields(cleanUser(last.out), last.out)
  /\ last.ev = "cleanTweet" => SameFields(cleanTweet(last.out), last.out)

(***************************************************************************)
(* C14  Every canonical field with several candidate source fields holds   *)
(* the value of the first candidate, in the documented order, that is      *)
(* defined, a falsy one included.  (Read with null as undefined: a field   *)
(* whose candidates are all null or undefined is left out of the           *)
(* comparison.)                                                            *)
(***************************************************************************)
RECURSIVE FirstDefined(_)
FirstDefined(candidates) ==
  IF candidates = <<>> THEN Undef
  ELSE IF ~Nullish(Head(candidates)) THEN Head(candidates)
       ELSE FirstDefined(Tail(candidates))

\* the field holds the first defined candidate, when there is one
Resolves(value, candidates) ==
  (\E i \in 1..Len(candidates) : ~Nullish(candidates[i])) => value = FirstDefined(candidates)

\* tweet.public_metrics.<metric> where the tweet has public_metrics
Metric(raw, metric) == OptGet(Get(raw, "public_metrics"), metric)

C14_AsStated ==
  /\ (last.ev = "cleanUser" /\ last.raw.k = "object") =>
       LET u == last.raw
           out == last.out.o
       IN /\ Resolves(out.username, <<Get(u, "userName"), Get(u, "screen_name"), Get(u, "username")>>)
          /\ Resolves(out.verified, <<Get(u, "isVerified"), Get(u, "verified"), Get(u, "isBlueVerified")>>)
          /\ Resolves(out.followers, <<Get(u, "followers"), Get(u, "followers_count")>>)
          /\ Resolves(out.following, <<Get(u, "following"), Get(u, "following_count")>>)
          /\ Resolves(out.tweets, <<Get(u, "statusesCount"), Get(u, "statuses_count"), Get(u, "tweet_count")>>)
          /\ Resolves(out.created, <<Get(u, "createdAt"), Get(u, "created_at")>>)
  /\ (last.ev = "cleanTweet" /\ last.raw.k = "object") =>
       LET t == last.raw
           out == last.out.o
       IN /\ Resolves(out.created, <<Get(t, "createdAt"), Get(t, "created_at")>>)
          /\ Resolves(out.retweets, <<Get(t, "retweetCount"), Metric(t, "retweet_count")>>)
          /\ Resolves(out.likes, <<Get(t, "likeCount"), Metric(t, "like_count")>>)
          /\ Resolves(out.replies, <<Get(t, "replyCount"), Metric(t, "reply_count")>>)
          /\ Resolves(out.quotes, <<Get(t, "quoteCount"), Metric(t, "quote_count")>>)
          /\ Resolves(out.inReplyTo, <<Get(t, "inReplyToId"), Get(t, "in_reply_to")>>)

(***************************************************************************)
(* C15  The scalar normalizers are total: cleanUser and cleanTweet throw   *)
(* for no input, give null for a null or absent input and an object for an *)
(* object, and a tweet without an author normalizes to a tweet without an  *)
(* author.                                                                 *)
(***************************************************************************)
RECURSIVE HasThrown(_)
HasThrown(v) ==
  CASE v.k = "TypeError" -> TRUE
    [] v.k = "object" -> \E f \in DOMAIN v.o : HasThrown(v.o[f])
    [] v.k = "array" -> \E i \in 1..Len(v.a) : HasThrown(v.a[i])
    [] OTHER -> FALSE

C15_Total ==
  (last.ev \in {"cleanUser", "cleanTweet"}) =>
    /\ ~HasThrown(last.out)
    /\ Nullish(last.raw) => last.out = Null
    /\ last.raw.k = "object" => last.out.k = "object"
    /\ (last.ev = "cleanTweet" /\ last.raw.k = "object" /\ Nullish(Get(last.raw, "author"))) =>
         last.out.o.author = Undef

\* a tweet with neither author nor public_metrics was normalized, and so was
\* a null
C15_Witness ==
  /\ last.ev = "cleanTweet"
  /\ last.raw = Obj([id |-> Str("t1"), author |-> Null])
  /\ last.out.o.id = Str("t1") /\ last.out.o.author = Undef /\ last.out.o.retweets = Undef

(***************************************************************************)
(* C16  The list normalizers give the empty list for anything that is not  *)
(* an array, and for an array the normalizations of its elements that are  *)
(* not null, every one of them, in the order of the array.                 *)
(***************************************************************************)
ScalarOf(fn, raw) == IF fn = "cleanUserList" THEN cleanUser(raw) ELSE cleanTweet(raw)

\* the positions of the array whose normalization is not null
Kept(fn, a) == {i \in 1..Len(a) : ScalarOf(fn, a[i]) # Null}

\* the j-th smallest of a set of positions
Nth(S, j) == CHOOSE i \in S : Cardinality({x \in S : x < i}) = j - 1

C16_ListNormalizers ==
  (last.ev \in {"cleanUserList", "cleanTweetList"}) =>
    IF last.raw.k # "array" THEN last.out = Arr(<<>>)
    ELSE LET a == last.raw.a
             out == last.out.a
             kept == Kept(last.ev, a)
         IN /\ Len(out) = Cardinality(kept)
            /\ \A j \in 1..Len(out) : out[j] = ScalarOf(last.ev, a[Nth(kept, j)])

\* a list with a null between two users kept both users, in order
C16_Witness ==
  /\ last.ev = "cleanUserList"
  /\ last.raw = Arr(<<RawUser2, Null, RawUser1>>)
  /\ last.out = Arr(<<cleanUser(RawUser2), cleanUser(RawUser1)>>)

(***************************************************************************)
(* C17  The pageSize get_user_followers and get_user_following send        *)
(* upstream is the requested one when it is at most 200, 200 when it is    *)
(* more, and 200 when none is requested; it is never more than 200.        *)
(***************************************************************************)
C17_PageSizeClamped ==
  (last.ev = "sent" /\ last.name \in {"get_user_followers", "get_user_following"}) =>
    LET requested == Get(last.args, "pageSize")
        sent == last.req.params.pageSize
    IN /\ sent.k = "number" /\ sent.n <= 200
       /\ requested = Undef => sent = Num(200)
       /\ (requested.k = "number" /\ requested.n <= 200) => sent = requested
       /\ (requested.k = "number" /\ requested.n > 200) => sent = Num(200)

\* 500 was requested and 200 was sent
C17_Witness ==
  /\ last.ev = "sent" /\ last.name = "get_user_following"
  /\ Get(last.args, "pageSize") = Num(500)
  /\ last.req.params.pageSize = Num(200)

(***************************************************************************)
(* C18  search_tweets sends queryType 'Latest' when the caller gives none, *)
(* and every queryType it sends is one of Latest and Top.                  *)
(***************************************************************************)
C18_AsStated ==
  (last.ev = "sent" /\ last.name = "search_tweets") =>
    /\ Get(last.args, "queryType") = Undef => last.req.params.queryType = Str("Latest")
    /\ last.req.params.queryType \in {Str("Latest"), Str("Top")}

(***************************************************************************)
(* Saving: read calls with a save directory, which may overlap; the file   *)
(* system may refuse a write and two calls may read the same time.         *)
(***************************************************************************)
SavingCalls ==
  SaveCalls
  \cup { Call("search_tweets", Obj([query |-> Str("AI"), save_dir |-> Str("out")])),
         Call("get_user_by_username", Obj([username |-> Str("alice"), save_dir |-> Str("out")])) }

SavingAnswers(name) ==
  IF name \in UserTools THEN {Resolved(RawUser1)}
  ELSE {Resolved(Page(l, "tweets")) : l \in {<<RawTweet1, RawTweet2, RawTweet3>>, <<RawTweet2>>}}

InvokeSaving == \E c \in SavingCalls : Invoke(c.name, c.args)

AnswerSaving ==
  \E id \in DOMAIN pending : \E resp \in SavingAnswers(pending[id].name) :
    \E fsOk \in BOOLEAN, now \in 0..MaxClock : Respond(id, resp, fsOk, now)

NextSave == InvokeSaving \/ AnswerSaving

SpecSave == Init /\ [][NextSave]_vars

\* the call that just ended was asked to save and reports the path of the
\* file it wrote
SavedFile(o, fs) ==
  /\ o.ev = "outcome" /\ o.out.t = "result"
  /\ Truthy(OptGet(o.args, "save_dir"))
  /\ o.out.text.note.s \in DOMAIN fs

(***************************************************************************)
(* C19  A read call with a save directory that ends well and saves writes  *)
(* exactly one file, at a path no earlier call wrote to (so no call        *)
(* overwrites the file of another), and leaves every other file as it was; *)
(* the file holds the envelope returned in the response text.              *)
(***************************************************************************)
C19_AsStated ==
  [][ SavedFile(last', files') =>
        LET p == last'.out.text.note.s
        IN /\ p \notin DOMAIN files
           /\ DOMAIN files' = DOMAIN files \cup {p}
           /\ \A q \in DOMAIN files : files'[q] = files[q]
           /\ files'[p].json = EnvelopeOf(last'.out) ]_vars

(***************************************************************************)
(* C20  The file a list operation saves holds the whole normalized list,   *)
(* every element of it, also when the response text is truncated to        *)
(* max_items.                                                              *)
(***************************************************************************)
C20_AsStated ==
  (SavedFile(last, files) /\ last.name \in ListTools6) =>
    LET whole == NormalizedList(last.name, last.resp.data)
    IN files[last.out.text.note.s].json.o.data = Arr([i \in 1..Len(whole) |-> Json(whole[i])])

(***************************************************************************)
(* C21  A read call whose save fails (the directory cannot be made or the  *)
(* file cannot be written) still ends in a text result: its encoded data   *)
(* is what the same call and answer give without a save directory, the     *)
(* failure appears only as the text of the note, no file is written and no *)
(* protocol error is raised.                                               *)
(***************************************************************************)
\* the latest event is the end of a read call that was asked to save, got
\* a body from upstream and wrote no file
SaveFailed ==
  /\ Answered
  /\ last.name \in ListTools6 \cup UserTools \cup {"get_tweet_by_id"}
  /\ Truthy(OptGet(last.args, "save_dir"))
  /\ last.resp.t = "resolved" /\ ~Nullish(last.resp.data)
  /\ (last.out.t = "result" => last.out.text.note.s \notin DOMAIN files)

\* what the same call gives on the same answer without a save directory
WithoutSaving ==
  ResumeRead(Locals(last.name, Undef, Get(last.args, "max_items")), last.resp, <<>>, TRUE, 0).out

C21_SaveFailureIsText ==
  SaveFailed =>
    /\ last.out.t = "result"
    /\ last.out.text.body = WithoutSaving.text.body
    /\ last.out.text.note.k = "string" /\ last.out.text.note.s # ""

\* a search asked to save in 'out' ended with its data and the note of the
\* failure
C21_Witness ==
  /\ SaveFailed
  /\ last.name = "search_tweets"
  /\ last.out.t = "result"
  /\ Len(DataOf(last.out).a) = 1
  /\ last.out.text.note = Str("Error saving: out")
  /\ files = <<>>

(***************************************************************************)
(* Pagination: the list operations called with and without a cursor,       *)
(* answered by pages with every kind of has_next_page and next_cursor.     *)
(***************************************************************************)
CursorArgs == {Str(""), Str("c1"), Str("c2")}

PageCalls ==
  {Call(n, Obj(FullArgs(n))) : n \in ListTools6}
  \cup {Call(n, Obj(Merge(FullArgs(n), [cursor |-> c]))) : n \in ListTools6, c \in CursorArgs}

\* an upstream page with the given pagination fields
PageWith(name, hasNext, nextCursor) ==
  Obj(Merge([has_next_page |-> hasNext, next_cursor |-> nextCursor],
            ListField(name) :> Arr(LongList(name, 2))))

PageAnswers(name) ==
  {Resolved(PageWith(name, h, c)) :
     h \in {Undef, Bool(TRUE), Bool(FALSE)}, c \in {Undef, Null, Str(""), Str("abc"), Str("xyz")}}

InvokePage ==
  /\ pending = <<>>
  /\ issued < MaxToolCalls
  /\ \E c \in PageCalls : Invoke(c.name, c.args)

AnswerPage ==
  \E id \in DOMAIN pending : \E resp \in PageAnswers(pending[id].name) :
    Respond(id, resp, TRUE, clock)

NextPages == InvokePage \/ AnswerPage

SpecPages == Init /\ [][NextPages]_vars

(***************************************************************************)
(* C22  Cursors pass through unchanged in both directions: the pagination  *)
(* block of a list operation's response holds the has_next_page and        *)
(* next_cursor of the upstream answer of that call, and a non-empty cursor *)
(* given by the caller is the cursor parameter of the upstream request.    *)
(***************************************************************************)
C22_CursorsVerbatim ==
  /\ (last.ev = "sent" /\ last.name \in ListTools6 /\ Truthy(Get(last.args, "cursor"))) =>
       last.req.params.cursor = Get(last.args, "cursor")
  /\ (ShapedOutcome /\ last.name \in ListTools6 /\ last.resp.data.k = "object") =>
       LET hasNext == Get(last.resp.data, "has_next_page")
           cursor == Get(last.resp.data, "next_cursor")
           block == EnvelopeOf(last.out).o.pagination
       IN /\ block.k = "object"
          /\ (hasNext # Undef) => ("hasNextPage" \in DOMAIN block.o /\ block.o.hasNextPage = hasNext)
          /\ (hasNext = Undef) => "hasNextPage" \notin DOMAIN block.o
          /\ (cursor # Undef) => ("nextCursor" \in DOMAIN block.o /\ block.o.nextCursor = cursor)
          /\ (cursor = Undef) => "nextCursor" \notin DOMAIN block.o

\* a call with cursor c1 was answered with has_next_page false and next
\* cursor xyz, and reports them
C22_Witness ==
  /\ ShapedOutcome /\ last.name = "get_user_followers"
  /\ Get(last.args, "cursor") = Str("c1")
  /\ last.req.params.cursor = Str("c1")
  /\ Get(last.resp.data, "next_cursor") = Str("xyz")
  /\ EnvelopeOf(last.out).o.pagination =
       Obj([hasNextPage |-> Bool(FALSE), nextCursor |-> Str("xyz")])

(***************************************************************************)
(* The session next to saving: logins, posts and read calls that save,     *)
(* which may overlap.                                                      *)
(***************************************************************************)
SecretCalls ==
  {Call(n, Obj(FullArgs(n))) : n \in {"login_user", "create_tweet"}}
  \cup SaveCalls
  \cup {Call("get_user_by_username", Obj([username |-> Str("alice"), save_dir |-> Str("out")]))}

SecretAnswers(name) ==
  CASE name = "login_user" ->
         {Resolved(b) : b \in LoginBodies} \cup {AxiosError(Undef, Str("timeout of 30000ms exceeded"))}
    [] name = "create_tweet" ->
         {Resolved(Obj([status |-> Str("success"), tweet_id |-> Str("t9")])),
          AxiosError(Undef, Str("timeout of 30000ms exceeded"))}
    [] OTHER -> SavingAnswers(name)

InvokeSecret == \E c \in SecretCalls : Invoke(c.name, c.args)

AnswerSecret ==
  \E id \in DOMAIN pending : \E resp \in SecretAnswers(pending[id].name) :
    Respond(id, resp, TRUE, clock)

NextSecret == InvokeSecret \/ AnswerSecret

SpecSecret == Init /\ [][NextSecret]_vars

(***************************************************************************)
(* C23  The session cookie stays in memory: no file ever holds a session   *)
(* cookie, and no login_user or create_tweet call writes or changes a      *)
(* file.                                                                   *)
(***************************************************************************)
\* the value c occurs somewhere in the value v
RECURSIVE Contains(_, _)
Contains(v, c) ==
  \/ v = c
  \/ v.k = "object" /\ \E f \in DOMAIN v.o : Contains(v.o[f], c)
  \/ v.k = "array" /\ \E i \in 1..Len(v.a) : Contains(v.a[i], c)

C23_CookieNotOnDisk ==
  [][ /\ \A p \in DOMAIN files' : \A c \in {Cookie1, Cookie2} : ~Contains(files'[p].json, c)
      /\ (last'.ev \in {"sent", "outcome"} /\ last'.name \in {"login_user", "create_tweet"}) =>
           files' = files ]_vars

\* a cookie is stored, a tweet was posted with it and a read call has saved
\* a file
C23_Witness ==
  /\ loginCookie = Cookie1
  /\ Answered /\ last.name = "create_tweet" /\ last.out.t = "result"
  /\ Get(last.req.data, "login_cookies") = Cookie1
  /\ "out/search_tweets_0.json" \in DOMAIN files

(***************************************************************************)
(* C24  There is no retry: a request goes upstream only as the one request *)
(* of a call that has just arrived, and the answer to it, a failure        *)
(* included, ends that call in the same step without another request.      *)
(***************************************************************************)
C24_NoRetry ==
  [][ /\ last'.ev = "sent" =>
           /\ issued' = issued + 1 /\ last'.id = issued'
           /\ last'.id \notin DOMAIN pending
           /\ DOMAIN pending' = DOMAIN pending \cup {last'.id}
      /\ (last'.ev = "outcome" /\ last'.resp # NoResp) =>
           /\ last'.id \in DOMAIN pending
           /\ DOMAIN pending' = DOMAIN pending \ {last'.id}
           /\ issued' = issued
      /\ (last'.ev = "outcome" /\ last'.resp = NoResp) => pending' = pending ]_vars

\* an upstream failure ended a call with an error while another call was
\* still waiting
C24_Witness ==
  /\ UpstreamFailed
  /\ last.out.t = "error"
  /\ last.id \notin DOMAIN pending
  /\ pending # <<>>

(***************************************************************************)
(* C25  tools/list answers with the same 11 tools in every state, before   *)
(* and after a login, and a call of any listed tool with an argument       *)
(* object never ends in a MethodNotFound error.                            *)
(***************************************************************************)
ElevenTools ==
  {"get_user_by_username", "get_user_by_id", "get_user_tweets", "search_tweets",
   "get_tweet_by_id", "get_tweet_replies", "get_user_followers", "get_user_following",
   "search_users", "login_user", "create_tweet"}

C25_StaticToolList ==
  /\ last.ev = "tools" =>
       /\ Len(last.tools) = 11
       /\ {last.tools[i].name : i \in 1..Len(last.tools)} = ElevenTools
  /\ (Ended /\ last.name \in Tools /\ Truthy(last.args)) =>
       ~(last.out.t = "error" /\ last.out.code = "MethodNotFound")

\* the list was asked for after a login had stored a cookie
C25_Witness ==
  /\ last.ev = "tools"
  /\ loginCookie = Cookie1
  /\ Len(last.tools) = 11

(***************************************************************************)
(* C26  get_tweet_by_id called with max_items = N returns at most N        *)
(* tweets: the first N of the normalized list, in order.                   *)
(***************************************************************************)
C26_AsStated ==
  (ShapedOutcome /\ last.name = "get_tweet_by_id"
     /\ Get(last.args, "max_items").k = "number" /\ Get(last.args, "max_items").n >= 1) =>
    LET N == Get(last.args, "max_items").n
        whole == NormalizedList(last.name, last.resp.data)
        n == Min(N, Len(whole))
    IN DataOf(last.out) = Arr([i \in 1..n |-> Json(whole[i])])

(***************************************************************************)
(* C27  Every upstream request, GET or POST, carries a Cookie header       *)
(* exactly when a session cookie is stored at the moment it is sent, and   *)
(* the header is the stored cookie; with no cookie stored there is no      *)
(* Cookie header.                                                          *)
(***************************************************************************)
C27_CookieHeader ==
  last.ev = "sent" =>
    /\ last.req.method \in {"GET", "POST"}
    /\ Truthy(loginCookie) => last.req.headers.Cookie = loginCookie
    /\ ~Truthy(loginCookie) => last.req.headers.Cookie = Undef

\* a read call sent after a login stored cookie-2 carries that cookie
C27_Witness ==
  /\ last.ev = "sent" /\ last.name = "get_user_by_username"
  /\ last.req.method = "GET"
  /\ loginCookie = Cookie2
  /\ last.req.headers.Cookie = Cookie2

(***************************************************************************)
(* C28  However logins and posts interleave, the request of a create_tweet *)
(* call is consistent: its body field login_cookies and its Cookie header  *)
(* hold the same cookie, the one stored when create_tweet was invoked.     *)
(***************************************************************************)
C28_ConsistentPost ==
  (last.ev = "sent" /\ last.name = "create_tweet") =>
    /\ Get(last.req.data, "login_cookies") = last.req.headers.Cookie
    /\ last.req.headers.Cookie = last.cookieBefore
    /\ Truthy(last.cookieBefore)

\* a post was sent while a login was still in flight
C28_Witness ==
  /\ last.ev = "sent" /\ last.name = "create_tweet"
  /\ \E id \in DOMAIN pending : pending[id].name = "login_user"
  /\ Get(last.req.data, "login_cookies") = Cookie1
  /\ last.req.headers.Cookie = Cookie1

(***************************************************************************)
(* C29  With several logins in flight, the stored cookie follows the order *)
(* in which their answers arrive, not the order in which they were issued: *)
(* each login answer that returns a cookie replaces the stored one, an     *)
(* answer without a cookie keeps it, and no other step changes it; so once *)
(* all have completed the stored cookie is that of the last answer that    *)
(* returned one.                                                           *)
(***************************************************************************)
ReturnedCookie(resp) ==
  IF resp.t = "resolved" THEN OptGet(resp.data, "login_cookie") ELSE Undef

C29_LastArrivalWins ==
  [][ IF last'.ev = "outcome" /\ last'.name = "login_user" /\ last'.resp # NoResp
      THEN loginCookie' = IF Truthy(ReturnedCookie(last'.resp))
                          THEN ReturnedCookie(last'.resp) ELSE loginCookie
      ELSE loginCookie' = loginCookie ]_vars

\* the login issued first was answered last, after a later login had stored
\* another cookie, and its cookie is the one stored
C29_Witness ==
  /\ Answered /\ last.name = "login_user" /\ last.id = 1
  /\ last.cookieBefore = Cookie2
  /\ ReturnedCookie(last.resp) = Cookie1
  /\ loginCookie = Cookie1
  /\ pending = <<>>

(***************************************************************************)
(* C30  login_user is the only writer of the session cookie: a step that   *)
(* changes the stored cookie is the end of an answered login_user call;    *)
(* the read tools, create_tweet, tools/list and every call that ends in a  *)
(* protocol error leave it as it was.                                      *)
(***************************************************************************)
C30_OnlyLoginWrites ==
  [][ /\ loginCookie' # loginCookie =>
           (last'.ev = "outcome" /\ last'.name = "login_user" /\ last'.resp # NoResp
              /\ last'.out.t = "result")
      /\ (last'.ev = "outcome" /\ last'.out.t = "error") => loginCookie' = loginCookie
      /\ last'.ev \in {"sent", "tools"} => loginCookie' = loginCookie ]_vars

\* a post failed upstream with a cookie stored, and the cookie is still there
C30_Witness ==
  /\ UpstreamFailed /\ last.name = "create_tweet"
  /\ last.out.t = "error"
  /\ last.cookieBefore = Cookie1
  /\ loginCookie = Cookie1

====
